---- MODULE Spec2Model ----
(***************************************************************************)
(* Model of detect_shots.py: the 10 m air-pistol target detector.          *)
(*                                                                         *)
(* Numbers are held in fixed point:                                        *)
(*   - ring diameters in tenths of a millimetre (11.5 mm = 115);           *)
(*   - normalized coordinates and distance ratios in units of 1/RatioUnit  *)
(*     of the target radius, RatioUnit being the ring-1 diameter in tenths *)
(*     of a millimetre, so that every ring threshold is a whole number;    *)
(*   - decimal scores in units of 1/(10 * RatioUnit) of a point;           *)
(*   - pixel coordinates in units of 1/SubPx of a pixel.                   *)
(***************************************************************************)
EXTENDS Integers, Sequences, FiniteSets, Bags, TLC

VARIABLES
    probe,            \* score-mapper check: the pair of positions to score
    scored,           \* score-mapper check: their scores
    pc,               \* position of the run
    argv_len,         \* len(sys.argv)
    image,            \* img: what cv2.imread finds at image_path, then the working image
    w, h,             \* working image size, after the optional downscale
    helper_circles,   \* circles found by detect_target_circle's transform
    legacy_circles,   \* circles found by the legacy search (empty: none, or not run)
    cx, cy, target_r, \* target geometry
    marker_shots,     \* result of detect_markers_using_white
    all_holes,        \* raw hole points of the two-pass detector
    merged_points,    \* clusters of merge_close_points
    shots,            \* the shot list of detect_shots
    found,            \* the winning strategy's shots, before sort and limit
    ran,              \* strategies run so far, in order, each with its number of shots
    bright_seen,      \* len(cnts) at each brightness cut-off the fallback tried
    exception,        \* message of the exception raised in detect_shots, if any
    stdout,           \* JSON documents printed by main
    exit_code         \* process exit status, -1 while running

svars == <<probe, scored>>

gvars == <<w, h, helper_circles, legacy_circles, cx, cy, target_r>>

dvars == <<marker_shots, all_holes, merged_points, shots, found, ran, bright_seen>>

mvars == <<argv_len, image, exception, stdout, exit_code>>

vars == <<probe, scored, pc, argv_len, image, w, h, helper_circles, legacy_circles,
          cx, cy, target_r, marker_shots, all_holes, merged_points, shots, found,
          ran, bright_seen, exception, stdout, exit_code>>

----------------------------------------------------------------------------
(* Target geometry helpers *)

\* Official ring diameters, in tenths of a millimetre.
OFFICIAL_RING_DIAMETERS_MM ==
    [score_val \in 1..10 |->
        CASE score_val = 10 -> 115
          [] score_val = 9  -> 275
          [] score_val = 8  -> 435
          [] score_val = 7  -> 595
          [] score_val = 6  -> 755
          [] score_val = 5  -> 915
          [] score_val = 4  -> 1075
          [] score_val = 3  -> 1235
          [] score_val = 2  -> 1395
          [] score_val = 1  -> 1555]

\* One unit of distance ratio is 1/RatioUnit of the target radius.
RatioUnit == OFFICIAL_RING_DIAMETERS_MM[1]

\* The list of (score, threshold ratio) pairs, highest score first.
\* (diameter / 2) / outer_radius_mm = diameter / outer diameter.
build_ring_ratio_thresholds ==
    LET outer_diameter == OFFICIAL_RING_DIAMETERS_MM[1]
        scores == DOMAIN OFFICIAL_RING_DIAMETERS_MM
        n == Cardinality(scores)
        \* sorted(..., key=item[0], reverse=True): position i holds the
        \* i-th largest score
        nth(i) == CHOOSE s \in scores : Cardinality({t \in scores : t > s}) = i - 1
    IN  [i \in 1..n |->
            <<nth(i), (OFFICIAL_RING_DIAMETERS_MM[nth(i)] * RatioUnit) \div outer_diameter>>]

RING_RATIO_THRESHOLDS == build_ring_ratio_thresholds

Abs(n) == IF n < 0 THEN -n ELSE n

Max(a, b) == IF a >= b THEN a ELSE b

Min(a, b) == IF a <= b THEN a ELSE b

\* The least k in lo..hi with k * k >= n.
RECURSIVE CeilSqrtBetween(_, _, _)
CeilSqrtBetween(n, lo, hi) ==
    IF lo >= hi THEN hi
    ELSE LET mid == (lo + hi) \div 2
         IN  IF mid * mid >= n THEN CeilSqrtBetween(n, lo, mid)
                               ELSE CeilSqrtBetween(n, mid + 1, hi)

\* np.hypot, rounded up to the next unit: for whole m, hypot(dx, dy) <= m
\* exactly when sqrt(dx^2 + dy^2) <= m, so comparisons against whole
\* thresholds are exact.
hypot(dx, dy) == CeilSqrtBetween(dx * dx + dy * dy, 0, Abs(dx) + Abs(dy))

\* The constant 10.9 of the decimal score, in tenths.
DECIMAL_K == 109

\* The inner-ten cut 10.5, in tenths.
INNER_TEN_CUT == 105

\* Mutant: the ring comparison reversed.
compute_scores_ring_reversed(dx, dy) ==
    LET dist_ratio == hypot(dx, dy)
        hits == {i \in DOMAIN RING_RATIO_THRESHOLDS :
                    dist_ratio >= RING_RATIO_THRESHOLDS[i][2]}
        first == CHOOSE i \in hits : \A j \in hits : i <= j
        decimal_score == Max(0, DECIMAL_K * RatioUnit - dist_ratio * DECIMAL_K)
    IN  IF dist_ratio > RatioUnit
        THEN [ring |-> 0, decimal |-> 0, inner |-> FALSE]
        ELSE [ring |-> IF hits = {} THEN 0 ELSE RING_RATIO_THRESHOLDS[first][1],
              decimal |-> decimal_score,
              inner |-> decimal_score > INNER_TEN_CUT * RatioUnit]

\* Mutant: the ring boundary made exclusive.
compute_scores_exclusive(dx, dy) ==
    LET dist_ratio == hypot(dx, dy)
        hits == {i \in DOMAIN RING_RATIO_THRESHOLDS :
                    dist_ratio < RING_RATIO_THRESHOLDS[i][2]}
        first == CHOOSE i \in hits : \A j \in hits : i <= j
        decimal_score == Max(0, DECIMAL_K * RatioUnit - dist_ratio * DECIMAL_K)
    IN  IF dist_ratio > RatioUnit
        THEN [ring |-> 0, decimal |-> 0, inner |-> FALSE]
        ELSE [ring |-> IF hits = {} THEN 0 ELSE RING_RATIO_THRESHOLDS[first][1],
              decimal |-> decimal_score,
              inner |-> decimal_score > INNER_TEN_CUT * RatioUnit]

\* Mutant: the outside-the-target test dropped.
compute_scores_no_outside(dx, dy) ==
    LET dist_ratio == hypot(dx, dy)
        hits == {i \in DOMAIN RING_RATIO_THRESHOLDS :
                    dist_ratio <= RING_RATIO_THRESHOLDS[i][2]}
        first == CHOOSE i \in hits : \A j \in hits : i <= j
        decimal_score == Abs(DECIMAL_K * RatioUnit - dist_ratio * DECIMAL_K)
    IN  [ring |-> IF hits = {} THEN 0 ELSE RING_RATIO_THRESHOLDS[first][1],
         decimal |-> decimal_score,
         inner |-> decimal_score > INNER_TEN_CUT * RatioUnit]

\* (ring_score, decimal_score, is_inner_ten) of a normalized position:
\* the descending scan takes the first score whose threshold is >= the ratio.
compute_scores_from_normalized(dx, dy) ==
    LET dist_ratio == hypot(dx, dy)
        hits == {i \in DOMAIN RING_RATIO_THRESHOLDS :
                    dist_ratio <= RING_RATIO_THRESHOLDS[i][2]}
        first == CHOOSE i \in hits : \A j \in hits : i <= j
        decimal_score == Max(0, DECIMAL_K * RatioUnit - dist_ratio * DECIMAL_K)
    IN  IF dist_ratio > RatioUnit
        THEN [ring |-> 0, decimal |-> 0, inner |-> FALSE]
        ELSE [ring |-> IF hits = {} THEN 0 ELSE RING_RATIO_THRESHOLDS[first][1],
              decimal |-> decimal_score,
              inner |-> decimal_score > INNER_TEN_CUT * RatioUnit]

----------------------------------------------------------------------------
(* Fixed-point helpers *)

\* Sub-pixel units per pixel.
SubPx == 4

\* A whole number of pixels, in sub-pixel units.
Px(n) == n * SubPx

\* a / b rounded to the nearest whole number, b > 0.
FixDiv(a, b) ==
    IF a >= 0 THEN (2 * a + b) \div (2 * b)
              ELSE 0 - ((2 * (0 - a) + b) \div (2 * b))

\* int(v) of a sub-pixel value v: whole pixels, truncated toward zero.
IntPx(v) == IF v >= 0 THEN v \div SubPx ELSE 0 - ((0 - v) \div SubPx)

\* np.around of a sub-pixel value: the nearest whole pixel.
RoundPx(v) == FixDiv(v, SubPx)

\* np.uint16 of a whole number.
Uint16(n) == n % 65536

\* All sequences over S of length at most n.
SeqsUpTo(S, n) == UNION {[1..k -> S] : k \in 0..n}

\* The sequence of f(s[i]).
MapSeq(s, f(_)) == [i \in DOMAIN s |-> f(s[i])]

----------------------------------------------------------------------------
(* Global detector limits *)

MAX_SHOTS_PER_TARGET == 15

\* Longer side above which detect_shots downscales the image.
MAX_DIM == 1600

----------------------------------------------------------------------------
(* Inputs: the image file and what the circle transform finds in it *)

\* The most circles one circle transform returns.
MaxCircles == 2

\* What cv2.imread returns: None, or an image of a size.  The last is a
\* strip one pixel wide.
Images ==
    {[decoded |-> FALSE, w |-> 0, h |-> 0],
     [decoded |-> TRUE, w |-> 1600, h |-> 1200],
     [decoded |-> TRUE, w |-> 3200, h |-> 2400],
     [decoded |-> TRUE, w |-> 1, h |-> 8]}

\* Circles <<x, y, r>> (sub-pixel units) present in the 1600 x 1200 working
\* image: the target at the image center, two circles of clutter near the
\* left and right edges, and a small circle between center and corner.
CirclePool ==
    {<<Px(800) + 1, Px(600), Px(311)>>,
     <<Px(190), Px(600) - 1, Px(311)>>,
     <<Px(1410), Px(610), Px(320)>>,
     <<Px(500), Px(400), Px(200)>>}

\* cv2.HoughCircles on an image iw x ih: a list of circles, strongest first,
\* whose centers lie in the image and are pairwise at least minDist apart
\* and whose radii lie in minRadius..maxRadius (maxRadius <= 0: no upper
\* limit); the empty list stands for None.  minDist, minRadius and maxRadius
\* are in sub-pixel units.
HoughCircles(iw, ih, minDist, minRadius, maxRadius) ==
    {cs \in SeqsUpTo(CirclePool, MaxCircles) :
        /\ \A i \in DOMAIN cs :
              /\ cs[i][1] < Px(iw) /\ cs[i][2] < Px(ih)
              /\ cs[i][3] >= minRadius
              /\ maxRadius > 0 => cs[i][3] <= maxRadius
        /\ \A i, j \in DOMAIN cs :
              i # j => hypot(cs[i][1] - cs[j][1], cs[i][2] - cs[j][2]) >= minDist}

\* detect_target_circle, given the circles its transform found: None (the
\* empty tuple) or the first circle, rounded to whole pixels.
detect_target_circle(circles) ==
    IF circles = <<>> THEN <<>>
    ELSE LET c == circles[1]
         IN  <<Px(Uint16(RoundPx(c[1]))), Px(Uint16(RoundPx(c[2]))), Px(Uint16(RoundPx(c[3])))>>

\* The legacy search's key: squared distance of a whole-pixel circle center
\* from the image center (w/2, h/2), times 4.
CenterDistKey(c, iw, ih) ==
    (2 * c[1] - iw) * (2 * c[1] - iw) + (2 * c[2] - ih) * (2 * c[2] - ih)

\* The legacy search's choice among its circles (a non-empty list): round to
\* whole pixels, then min(...) by distance from the image center, the first
\* of the nearest.
legacy_choose(circles, iw, ih) ==
    LET rounded == [i \in DOMAIN circles |->
                       <<RoundPx(circles[i][1]), RoundPx(circles[i][2]), RoundPx(circles[i][3])>>]
        best == CHOOSE i \in DOMAIN rounded :
                    /\ \A j \in DOMAIN rounded :
                          CenterDistKey(rounded[i], iw, ih) <= CenterDistKey(rounded[j], iw, ih)
                    /\ \A j \in 1..(i - 1) :
                          CenterDistKey(rounded[j], iw, ih) > CenterDistKey(rounded[i], iw, ih)
    IN  <<Px(rounded[best][1]), Px(rounded[best][2]), Px(rounded[best][3])>>

----------------------------------------------------------------------------
(* main and the first steps of detect_shots *)

Init ==
    /\ probe = <<>> /\ scored = <<>>
    /\ pc = "main"
    /\ argv_len \in {1, 2}
    /\ image \in Images
    /\ w = 0 /\ h = 0
    /\ helper_circles = <<>> /\ legacy_circles = <<>>
    /\ cx = 0 /\ cy = 0 /\ target_r = 0
    /\ marker_shots = <<>> /\ all_holes = <<>> /\ merged_points = <<>>
    /\ shots = <<>> /\ found = <<>> /\ ran = <<>> /\ bright_seen = <<>>
    /\ exception = "" /\ stdout = <<>> /\ exit_code = -1

\* main, called without an image path: usage message, exit status 1.
MainUsage ==
    /\ pc = "main"
    /\ argv_len < 2
    /\ pc' = "exit"
    /\ exit_code' = 1
    /\ UNCHANGED <<svars, gvars, dvars, argv_len, image, exception, stdout>>

\* detect_shots, step 1: load the image, raise if it cannot be read, and
\* downscale it if its longer side exceeds MAX_DIM.
LoadImage ==
    /\ pc = "main"
    /\ argv_len >= 2
    /\ IF ~image.decoded
       THEN /\ exception' = "Could not read image"
            /\ pc' = "raised"
            /\ UNCHANGED <<w, h, image>>
       ELSE LET max_dim == Max(image.h, image.w)
            IN  /\ IF max_dim > MAX_DIM
                   THEN \* img = cv2.resize(img, (new_w, new_h))
                        /\ w' = (image.w * MAX_DIM) \div max_dim
                        /\ h' = (image.h * MAX_DIM) \div max_dim
                   ELSE /\ w' = image.w
                        /\ h' = image.h
                /\ image' = [decoded |-> TRUE, w |-> w', h |-> h']
                /\ pc' = "locate"
                /\ UNCHANGED exception
    /\ UNCHANGED <<svars, helper_circles, legacy_circles, cx, cy, target_r, dvars,
                   argv_len, stdout, exit_code>>

\* detect_shots, step 2: the target circle from the helper, else from the
\* legacy search, else the fallback center and radius.
LocateTarget ==
    /\ pc = "locate"
    /\ \E hc \in HoughCircles(w, h, Px(h \div 2), Px(h \div 4), 0) :
         LET circle == detect_target_circle(hc)
         IN  /\ helper_circles' = hc
             /\ IF circle # <<>>
                THEN /\ legacy_circles' = <<>>
                     /\ cx' = circle[1] /\ cy' = circle[2] /\ target_r' = circle[3]
                ELSE \E lc \in HoughCircles(w, h, (Px(Min(h, w))) \div 4,
                                            Px((Min(h, w) * 15) \div 100),
                                            Px((Min(h, w) * 35) \div 100)) :
                        /\ legacy_circles' = lc
                        /\ IF lc = <<>>
                           THEN /\ cx' = Px(w) \div 2
                                /\ cy' = Px(h) \div 2
                                /\ target_r' = (Px(Min(h, w)) * 35) \div 100
                           ELSE LET chosen == legacy_choose(lc, w, h)
                                IN  /\ cx' = chosen[1]
                                    /\ cy' = chosen[2]
                                    /\ target_r' = chosen[3]
    /\ pc' = "marker"
    /\ UNCHANGED <<svars, w, h, dvars, mvars>>

----------------------------------------------------------------------------
(* Candidate blobs and the shot records made of them *)

\* np.pi as the fraction PI_NUM / PI_DEN.
PI_NUM == 355

PI_DEN == 113

\* estimate_pellet_radius_px: max(6, int(target_radius_px * 0.025)), in
\* whole pixels, of a radius in sub-pixel units.
estimate_pellet_radius_px(target_radius) ==
    Max(6, (target_radius * 25) \div (1000 * SubPx))

\* The most distinct contours one segmentation returns.
MaxBlobs == 2

\* How many shots beyond MAX_SHOTS_PER_TARGET a repeated contour can make.
ExtraShots == 1

\* Offsets from the center of the working image, in pixels, of the blobs.
BlobOffsets ==
    {<<0, 0>>, <<23, 0>>, <<0, 24>>, <<0 - 50, 0>>, <<220, 220>>, <<400, 0>>}

\* Contours a segmentation can return: center of the minimal enclosing
\* circle (sub-pixel units), contour area (square pixels) and perimeter
\* (pixels).  Round pellet-sized blobs at each offset, an elongated fragment,
\* and a speck two pixels long in the first column.
BlobPool ==
    {[x |-> Px(800 + o[1]), y |-> Px(600 + o[2]), area |-> 150, perimeter |-> 44] :
        o \in BlobOffsets}
    \cup {[x |-> Px(0), y |-> Px(4), area |-> 0, perimeter |-> 2],
          [x |-> Px(810), y |-> Px(610), area |-> 150, perimeter |-> 100]}

\* s with its last element repeated n times in all.
RepeatLast(s, n) ==
    IF s = <<>> THEN <<>>
    ELSE SubSeq(s, 1, Len(s) - 1) \o [i \in 1..n |-> s[Len(s)]]

\* The contour lists a segmentation of an image iw x ih can return: up to
\* MaxBlobs contours that fit in the image, the last of them possibly found
\* again and again (overlapping blobs), no more of them than half the
\* image's pixels.
ContourLists(iw, ih) ==
    LET fits(cnt) == cnt.x < Px(iw) /\ cnt.y < Px(ih) /\ cnt.area <= iw * ih
        all == {RepeatLast(s, n) :
                   s \in SeqsUpTo({cnt \in BlobPool : fits(cnt)}, MaxBlobs),
                   n \in {1, 2, MAX_SHOTS_PER_TARGET + ExtraShots}}
    IN  {cs \in all : 2 * Len(cs) <= iw * ih}

\* norm_x = (x - cx) / target_r, in units of 1/RatioUnit.
normalize(x, c, r) == FixDiv((x - c) * RatioUnit, r)

\* Mutant: the marker shot labelled as a computed one.
marker_shot_mislabelled(norm_x, norm_y) ==
    LET sc == compute_scores_from_normalized(norm_x, norm_y)
    IN  [score |-> sc.ring, ringScore |-> sc.ring, decimalScore |-> sc.decimal,
         positionX |-> norm_x, positionY |-> norm_y,
         scoreSource |-> "computed", isInnerTen |-> sc.inner]

\* The shot record of detect_markers_using_white.
marker_shot(norm_x, norm_y) ==
    LET sc == compute_scores_from_normalized(norm_x, norm_y)
    IN  [score |-> sc.ring, ringScore |-> sc.ring, decimalScore |-> sc.decimal,
         positionX |-> norm_x, positionY |-> norm_y,
         scoreSource |-> "white-marker", isInnerTen |-> sc.inner]

\* The shot record of detect_shots_two_pass.
computed_shot(norm_x, norm_y) ==
    LET sc == compute_scores_from_normalized(norm_x, norm_y)
    IN  [score |-> sc.ring, ringScore |-> sc.ring, decimalScore |-> sc.decimal,
         positionX |-> norm_x, positionY |-> norm_y,
         scoreSource |-> "computed", isInnerTen |-> sc.inner]

\* The shot record of the bright-blob fallback: score is the decimal score.
fallback_shot(norm_x, norm_y) ==
    LET sc == compute_scores_from_normalized(norm_x, norm_y)
    IN  [score |-> sc.decimal, ringScore |-> sc.ring, decimalScore |-> sc.decimal,
         positionX |-> norm_x, positionY |-> norm_y,
         scoreSource |-> "fallback", isInnerTen |-> sc.inner]

\* detect_markers_using_white, given the contours of the marker mask: the
\* shots of the contours that pass the area, perimeter, circularity and
\* distance tests, in contour order.
detect_markers_using_white(cnts, pcx, pcy, r) ==
    LET pellet_radius_px == estimate_pellet_radius_px(r)
        \* expected_marker_area = pi * pellet_radius_px^2
        kept(cnt) ==
            /\ ~(cnt.area * PI_DEN * 100 < PI_NUM * pellet_radius_px * pellet_radius_px * 45)
            /\ ~(cnt.area * PI_DEN * 10 > PI_NUM * pellet_radius_px * pellet_radius_px * 25)
            /\ cnt.perimeter # 0
            \* circularity = 4 pi area / perimeter^2 >= 0.5
            /\ ~(8 * PI_NUM * cnt.area < PI_DEN * cnt.perimeter * cnt.perimeter)
            \* dist_center <= target_r * 1.2
            /\ ~(5 * hypot(cnt.x - pcx, cnt.y - pcy) > 6 * r)
        shot(cnt) == marker_shot(normalize(cnt.x, pcx, r), normalize(cnt.y, pcy, r))
    IN  MapSeq(SelectSeq(cnts, kept), shot)

\* Mutant: a strategy's result never stops the cascade.
next_strategy_always(strategy, result) ==
    CASE strategy = "marker"   -> "two_pass"
      [] strategy = "two_pass" -> "fallback"
      [] OTHER                 -> "finish"

\* Where detect_shots goes after a strategy: "if not shots" falls to the
\* next strategy, a non-empty list goes on to the sort.
next_strategy(strategy, result) ==
    IF result # <<>> THEN "finish"
    ELSE CASE strategy = "marker"   -> "two_pass"
           [] strategy = "two_pass" -> "fallback"
           [] OTHER                 -> "finish"

\* detect_shots, step 3: the white-marker detector.
MarkerStrategy ==
    /\ pc = "marker"
    /\ \E cnts \in ContourLists(w, h) :
         /\ marker_shots' = detect_markers_using_white(cnts, cx, cy, target_r)
         /\ shots' = marker_shots'
         /\ pc' = next_strategy("marker", shots')
    /\ ran' = Append(ran, <<"marker", Len(shots')>>)
    \* circle and circles are not read past step 2
    /\ helper_circles' = <<>>
    /\ legacy_circles' = <<>>
    /\ UNCHANGED <<svars, w, h, cx, cy, target_r, all_holes, merged_points, found,
                   bright_seen, mvars>>

----------------------------------------------------------------------------
(* Two-pass hole detection *)

\* min_dist is passed in units of 1/MinDistDen of a sub-pixel unit, so that
\* pellet_radius_px * 0.8 is a whole number.
MinDistDen == 5

\* pellet_radius_px * 0.8, in units of 1/MinDistDen of a sub-pixel unit.
min_dist_of(pellet_radius_px) == (Px(pellet_radius_px) * MinDistDen * 8) \div 10

\* (x - cx)^2 + (y - cy)^2 <= min_dist^2
within(x, y, ccx, ccy, min_dist) ==
    MinDistDen * MinDistDen * ((x - ccx) * (x - ccx) + (y - ccy) * (y - ccy))
        <= min_dist * min_dist

\* Mutant: the distance test reversed.
fold_point_reversed(merged, p, min_dist) ==
    LET close == {k \in DOMAIN merged :
                     ~within(p[1], p[2], merged[k][1], merged[k][2], min_dist)}
        k == CHOOSE i \in close : \A j \in close : i <= j
        cnt == merged[k][3]
        new_cnt == cnt + 1
    IN  IF close = {}
        THEN Append(merged, <<p[1], p[2], 1>>)
        ELSE [merged EXCEPT ![k] = <<FixDiv(merged[k][1] * cnt + p[1], new_cnt),
                                     FixDiv(merged[k][2] * cnt + p[2], new_cnt),
                                     new_cnt>>]

\* One turn of merge_close_points' loop: the point joins the first cluster
\* whose centroid is within min_dist, which becomes the running average, or
\* starts a cluster of its own.
fold_point(merged, p, min_dist) ==
    LET close == {k \in DOMAIN merged :
                     within(p[1], p[2], merged[k][1], merged[k][2], min_dist)}
        k == CHOOSE i \in close : \A j \in close : i <= j
        cnt == merged[k][3]
        new_cnt == cnt + 1
    IN  IF close = {}
        THEN Append(merged, <<p[1], p[2], 1>>)
        ELSE [merged EXCEPT ![k] = <<FixDiv(merged[k][1] * cnt + p[1], new_cnt),
                                     FixDiv(merged[k][2] * cnt + p[2], new_cnt),
                                     new_cnt>>]

RECURSIVE merge_from(_, _, _, _)
merge_from(points, i, merged, min_dist) ==
    IF i > Len(points) THEN merged
    ELSE merge_from(points, i + 1, fold_point(merged, points[i], min_dist), min_dist)

\* merge_close_points: the clusters <<x, y, count>> of the points, in order
\* of their first point.
merge_close_points(points, min_dist) == merge_from(points, 1, <<>>, min_dist)

\* The most hole centers detect_holes_in_mask returns for one mask.
MaxHoles == 2

\* Hole centers, in sub-pixel units within the region of interest: three
\* holes overlapping in a row, and one toward the corner of the region.
HolePool ==
    {<<Px(311), Px(311)>>, <<Px(317), Px(311)>>, <<Px(316), Px(311)>>,
     <<Px(531), Px(531)>>}

\* What detect_holes_in_mask can return for a region of the given size.
HoleLists(roi_w, roi_h) ==
    SeqsUpTo({p \in HolePool : p[1] < Px(roi_w) /\ p[2] < Px(roi_h)}, MaxHoles)

\* Mutant: one record for each cluster, whatever its count.
cluster_shots_single(clusters, x0, y0, pcx, pcy, r) ==
    [k \in DOMAIN clusters |->
        computed_shot(normalize(clusters[k][1] + Px(x0), pcx, r),
                      normalize(clusters[k][2] + Px(y0), pcy, r))]

\* The shots of the clusters: max(1, int(round(count))) records for each.
RECURSIVE cluster_shots(_, _, _, _, _, _)
cluster_shots(clusters, x0, y0, pcx, pcy, r) ==
    IF clusters = <<>> THEN <<>>
    ELSE LET c == Head(clusters)
             x_global == c[1] + Px(x0)
             y_global == c[2] + Px(y0)
             shot == computed_shot(normalize(x_global, pcx, r), normalize(y_global, pcy, r))
         IN  [i \in 1..Max(1, c[3]) |-> shot]
                 \o cluster_shots(Tail(clusters), x0, y0, pcx, pcy, r)

\* detect_shots, step 3 continued: the two-pass hole detector, run when the
\* marker detector found no shots.
TwoPassStrategy ==
    /\ pc = "two_pass"
    /\ LET x0 == Max(IntPx(cx - target_r), 0)
           y0 == Max(IntPx(cy - target_r), 0)
           x1 == Min(IntPx(cx + target_r), w)
           y1 == Min(IntPx(cy + target_r), h)
       IN  IF x1 <= x0 \/ y1 <= y0
           THEN \* roi.size == 0
                /\ shots' = <<>>
                /\ UNCHANGED <<all_holes, merged_points>>
           ELSE \E holes_outer \in HoleLists(x1 - x0, y1 - y0),
                   holes_inner \in HoleLists(x1 - x0, y1 - y0) :
                   LET pellet_radius_px == estimate_pellet_radius_px(target_r)
                   IN  /\ all_holes' = holes_outer \o holes_inner
                       /\ merged_points' =
                              merge_close_points(all_holes', min_dist_of(pellet_radius_px))
                       /\ shots' = cluster_shots(merged_points', x0, y0, cx, cy, target_r)
    /\ pc' = next_strategy("two_pass", shots')
    /\ ran' = Append(ran, <<"two_pass", Len(shots')>>)
    /\ UNCHANGED <<svars, gvars, marker_shots, found, bright_seen, mvars>>

----------------------------------------------------------------------------
(* Bright-blob fallback *)

\* The brightness cut-offs tried, in order.
BRIGHT_CUTOFFS == <<250, 245, 240>>

\* The fallback loop over the contours seen at each cut-off: the contours of
\* the first cut-off that shows at least 3, else none.
bright_contours(seen) ==
    LET enough == {i \in DOMAIN seen : Len(seen[i]) >= 3}
    IN  IF enough = {} THEN <<>>
        ELSE seen[CHOOSE i \in enough : \A j \in enough : i <= j]

\* len(cnts) at each cut-off the fallback loop tries: it stops at the first
\* that shows at least 3.
cutoffs_tried(seen) ==
    LET enough == {i \in DOMAIN seen : Len(seen[i]) >= 3}
        last == IF enough = {} THEN Len(seen)
                ELSE CHOOSE i \in enough : \A j \in enough : i <= j
    IN  [i \in 1..last |-> Len(seen[i])]

\* The shots of the fallback's contours that pass its area and distance tests.
fallback_shots(contours, pcx, pcy, r) ==
    LET kept(cnt) ==
            \* min_area = target_r^2 * 0.0005, max_area = target_r^2 * 0.02
            /\ ~(cnt.area * 10000 * SubPx * SubPx < 5 * r * r)
            /\ ~(cnt.area * 100 * SubPx * SubPx > 2 * r * r)
            \* dist_center <= target_r * 1.5
            /\ ~(2 * hypot(cnt.x - pcx, cnt.y - pcy) > 3 * r)
        shot(cnt) == fallback_shot(normalize(cnt.x, pcx, r), normalize(cnt.y, pcy, r))
    IN  MapSeq(SelectSeq(contours, kept), shot)

\* detect_shots, step 3 continued: bright-blob mode, run when the two-pass
\* detector found no shots either.  The blobs become visible together at one
\* cut-off (first_seen), or at none (0).
BrightFallback ==
    /\ pc = "fallback"
    /\ \E cnts \in ContourLists(w, h), first_seen \in 0..Len(BRIGHT_CUTOFFS) :
         LET seen == [i \in DOMAIN BRIGHT_CUTOFFS |->
                         IF first_seen # 0 /\ i >= first_seen THEN cnts ELSE <<>>]
         IN  /\ bright_seen' = cutoffs_tried(seen)
             /\ shots' = fallback_shots(bright_contours(seen), cx, cy, target_r)
    /\ pc' = next_strategy("fallback", shots')
    /\ ran' = Append(ran, <<"fallback", Len(shots')>>)
    /\ UNCHANGED <<svars, gvars, marker_shots, all_holes, merged_points, found, mvars>>

----------------------------------------------------------------------------
(* Sort, limit, return *)

\* The sort key: abs(ringScore - 10).
closeness(s) == Abs(s.ringScore - 10)

RECURSIVE sort_from(_, _, _)
sort_from(s, k, last) ==
    IF k > last THEN <<>>
    ELSE LET has_key(e) == closeness(e) = k
         IN  SelectSeq(s, has_key) \o sort_from(s, k + 1, last)

\* Mutant: the sort reversed, farthest from 10 first.
sort_farthest_first(s) ==
    LET n == Len(sort_from(s, 0, 10))
    IN  [i \in 1..n |-> sort_from(s, 0, 10)[n + 1 - i]]

\* shots.sort(key = closeness): ascending and stable, so the shots of each
\* key follow one another in their order of detection.
sort_by_closeness(s) == sort_from(s, 0, 10)

\* Mutant: the limit keeps the tail of the list.
limit_shots_tail(shots_, max_shots) ==
    IF Len(shots_) <= max_shots THEN shots_
    ELSE SubSeq(shots_, Len(shots_) - max_shots + 1, Len(shots_))

\* limit_shots: at most max_shots, the head of the list.
limit_shots(shots_, max_shots) ==
    IF Len(shots_) <= max_shots THEN shots_
    ELSE SubSeq(shots_, 1, max_shots)

\* detect_shots, the end: sort by closeness to 10, limit, save the debug
\* image (no effect on the result) and return.
SortAndLimit ==
    /\ pc = "finish"
    /\ found' = shots
    /\ shots' = limit_shots(sort_by_closeness(shots), MAX_SHOTS_PER_TARGET)
    /\ pc' = "returned"
    /\ UNCHANGED <<svars, gvars, marker_shots, all_holes, merged_points, ran,
                   bright_seen, mvars>>

\* Mutant: the error result without its error field.
error_result_bare(e) == [shots |-> <<>>]

\* main's result on an exception.
error_result(e) == [shots |-> <<>>, error |-> e]

\* Mutant: an empty shot list reported as an error.
normal_result_empty_is_error(shots_) ==
    IF shots_ = <<>> THEN [shots |-> <<>>, error |-> "No shots detected"]
    ELSE [shots |-> shots_]

\* main's result on a normal return.
normal_result(shots_) == [shots |-> shots_]

\* main: detect_shots returned; print the result.
MainPrint ==
    /\ pc = "returned"
    /\ stdout' = Append(stdout, normal_result(shots))
    /\ exit_code' = 0
    /\ pc' = "exit"
    /\ UNCHANGED <<svars, gvars, dvars, argv_len, image, exception>>

\* main: detect_shots raised; print a result with the error, exit status 0.
MainExcept ==
    /\ pc = "raised"
    /\ stdout' = Append(stdout, error_result(exception))
    /\ exit_code' = 0
    /\ pc' = "exit"
    /\ UNCHANGED <<svars, gvars, dvars, argv_len, image, exception>>

Next ==
    \/ MainUsage
    \/ LoadImage
    \/ LocateTarget
    \/ MarkerStrategy
    \/ TwoPassStrategy
    \/ BrightFallback
    \/ SortAndLimit
    \/ MainPrint
    \/ MainExcept

Spec == Init /\ [][Next]_vars

----------------------------------------------------------------------------
(* Properties of the detection run *)

\* The elements of a sequence, with their multiplicities.
SeqBag(s) == [e \in {s[i] : i \in DOMAIN s} |-> Cardinality({i \in DOMAIN s : s[i] = e})]

\* The x, y of each cluster.
centroids(clusters) == [i \in DOMAIN clusters |-> <<clusters[i][1], clusters[i][2]>>]

\* The min_dist the two-pass detector used.
MinDistUsed == min_dist_of(estimate_pellet_radius_px(target_r))

\* merge_close_points run again on the centroids of its own output.
SecondPass == merge_close_points(centroids(merged_points), MinDistUsed)

\* No two centroids of the first pass are within min_dist of each other.
CentroidsApart ==
    \A i, j \in DOMAIN merged_points :
        i < j => ~within(merged_points[j][1], merged_points[j][2],
                         merged_points[i][1], merged_points[i][2], MinDistUsed)

\* C3 as stated: running merge_close_points on the centroids of its own
\* output yields the same number of clusters at the same centroids.
DedupIdempotent == centroids(SecondPass) = centroids(merged_points)

\* C3, amended: the second run yields the same clusters exactly when the
\* centroids of the first run are pairwise more than min_dist apart; when
\* the running average has moved two centroids to within min_dist of each
\* other, the second run merges them.
DedupIdempotentWhenApart ==
    CentroidsApart <=> (centroids(SecondPass) = centroids(merged_points))

\* A first pass that merged two points into one cluster, left another
\* cluster apart from it, and is reproduced by the second pass.
DedupIdempotentWitness ==
    /\ Len(merged_points) >= 2
    /\ \E i \in DOMAIN merged_points : merged_points[i][3] >= 2
    /\ CentroidsApart
    /\ centroids(SecondPass) = centroids(merged_points)

\* The shots detect_shots left out of its result.
Discarded == SeqBag(found) (-) SeqBag(shots)

\* C4: when the winning strategy produced more than 15 shots, exactly 15
\* are returned, each at least as close to 10 by ring score as every
\* discarded one; when it produced 15 or fewer, all are returned.
ShotCap ==
    pc = "returned" =>
        /\ SeqBag(shots) \sqsubseteq SeqBag(found)
        /\ IF Len(found) > MAX_SHOTS_PER_TARGET
           THEN /\ Len(shots) = MAX_SHOTS_PER_TARGET
                /\ \A i \in DOMAIN shots : \A d \in BagToSet(Discarded) :
                       closeness(shots[i]) <= closeness(d)
           ELSE SeqBag(shots) = SeqBag(found)

\* More than 15 shots found, of two rings, the discarded one farther out.
ShotCapWitness ==
    /\ pc = "returned"
    /\ Len(found) > MAX_SHOTS_PER_TARGET
    /\ Len(shots) = MAX_SHOTS_PER_TARGET
    /\ \E d \in BagToSet(Discarded) : closeness(d) > closeness(shots[1])

OfKey(s, k) == LET has_key(e) == closeness(e) = k IN SelectSeq(s, has_key)

STRATEGY_ORDER == <<"marker", "two_pass", "fallback">>

SourceOf(strategy) ==
    CASE strategy = "marker"   -> "white-marker"
      [] strategy = "two_pass" -> "computed"
      [] strategy = "fallback" -> "fallback"

\* C6: the strategies run in the order marker, two-pass, fallback; a
\* strategy runs only if every earlier one returned an empty list; and the
\* returned shots all come from the first strategy that returned a non-empty
\* list.
StrategyShortCircuit ==
    /\ Len(ran) <= Len(STRATEGY_ORDER)
    /\ \A i \in DOMAIN ran :
          /\ ran[i][1] = STRATEGY_ORDER[i]
          /\ \A j \in 1..(i - 1) : ran[j][2] = 0
    /\ pc \in {"finish", "returned"} =>
          /\ ran # <<>>
          /\ ran[Len(ran)][2] = 0 => (Len(ran) = Len(STRATEGY_ORDER) /\ shots = <<>>)
          /\ \A i \in DOMAIN shots : shots[i].scoreSource = SourceOf(ran[Len(ran)][1])
    /\ pc \in {"marker", "two_pass", "fallback"} =>
          /\ STRATEGY_ORDER[Len(ran) + 1] = pc
          /\ shots = <<>>

\* The fallback's shots returned after the two earlier strategies ran and
\* found nothing.
StrategyShortCircuitWitness ==
    /\ pc = "returned"
    /\ Len(ran) = 3
    /\ ran[1][2] = 0 /\ ran[2][2] = 0 /\ ran[3][2] > 0
    /\ shots # <<>>
    /\ shots[1].scoreSource = "fallback"

\* C7: when detect_shots raises (the image cannot be decoded), main still
\* prints one well-formed result with an empty shot list and a populated
\* error field and exits with status 0; a result has an error field only in
\* that case.
ErrorContained ==
    /\ pc = "raised" => exception # ""
    /\ (pc = "exit" /\ argv_len >= 2) =>
          /\ Len(stdout) = 1
          /\ exit_code = 0
          /\ "shots" \in DOMAIN stdout[1]
          /\ ~image.decoded =>
                /\ exception # ""
                /\ DOMAIN stdout[1] = {"shots", "error"}
                /\ stdout[1].shots = <<>>
                /\ stdout[1].error # ""
    /\ \A i \in DOMAIN stdout :
          "error" \in DOMAIN stdout[i] <=> exception # ""

\* The run on an undecodable image, ended with the error result printed.
ErrorContainedWitness ==
    /\ pc = "exit"
    /\ ~image.decoded
    /\ Len(stdout) = 1
    /\ "error" \in DOMAIN stdout[1]
    /\ stdout[1].error = "Could not read image"

\* Every shot record of the run: the strategies' lists and the printed ones.
AllShots ==
    {marker_shots[i] : i \in DOMAIN marker_shots}
    \cup {shots[i] : i \in DOMAIN shots}
    \cup {found[i] : i \in DOMAIN found}
    \cup UNION {{stdout[d].shots[i] : i \in DOMAIN stdout[d].shots} : d \in DOMAIN stdout}

\* C8 as stated: every shot's scoreSource is one of marker, computed,
\* fallback.
ScoreSourceInSpecEnum ==
    \A s \in AllShots : s.scoreSource \in {"marker", "computed", "fallback"}

\* C8, amended: every shot's scoreSource is one of white-marker, computed,
\* fallback, and names the strategy that produced the shot: white-marker for
\* the marker segmentation, computed for the two-pass hole detection,
\* fallback for the brightness fallback.
ScoreSourceNamesStrategy ==
    /\ \A s \in AllShots : s.scoreSource \in {"white-marker", "computed", "fallback"}
    /\ \A i \in DOMAIN marker_shots : marker_shots[i].scoreSource = "white-marker"
    /\ ran # <<>> =>
          \A i \in DOMAIN shots : shots[i].scoreSource = SourceOf(ran[Len(ran)][1])

\* A printed result with a shot of the marker strategy.
ScoreSourceWitness ==
    /\ pc = "exit"
    /\ Len(stdout) = 1
    /\ stdout[1].shots # <<>>
    /\ stdout[1].shots[1].scoreSource = "white-marker"
    /\ ran = <<<<"marker", Len(found)>>>>

\* C9: in every shot, a normalized position of magnitude > 1.0 implies
\* ring score 0, decimal score 0 and no inner ten.
OutsideScoresZero ==
    \A s \in AllShots :
        s.positionX * s.positionX + s.positionY * s.positionY > RatioUnit * RatioUnit
        => /\ s.ringScore = 0
           /\ s.decimalScore = 0
           /\ s.isInnerTen = FALSE

\* A printed marker shot beyond the target radius (within 1.2 x radius),
\* scored 0.
OutsideScoresZeroWitness ==
    /\ pc = "exit"
    /\ Len(stdout) = 1
    /\ \E i \in DOMAIN stdout[1].shots :
          LET s == stdout[1].shots[i]
          IN  /\ s.scoreSource = "white-marker"
              /\ s.positionX * s.positionX + s.positionY * s.positionY
                    > RatioUnit * RatioUnit
              /\ s.ringScore = 0

\* The circles the target location chose from, rounded to whole pixels.
Candidates ==
    LET cs == IF helper_circles # <<>> THEN helper_circles ELSE legacy_circles
    IN  {<<RoundPx(cs[i][1]), RoundPx(cs[i][2]), RoundPx(cs[i][3])>> : i \in DOMAIN cs}

\* C10: whenever circle detection returned candidates, on the helper's path
\* or the legacy search's, the target geometry is the candidate whose center
\* is nearest the image center (w/2, h/2).
NearestCircleChosen ==
    (pc = "marker" /\ Candidates # {}) =>
        /\ \E c \in Candidates : <<cx, cy, target_r>> = <<Px(c[1]), Px(c[2]), Px(c[3])>>
        /\ \A c \in Candidates :
              CenterDistKey(<<IntPx(cx), IntPx(cy)>>, w, h) <= CenterDistKey(c, w, h)

\* The sum of the counts of a list of clusters <<x, y, count>>.
RECURSIVE CountSum(_)
CountSum(clusters) ==
    IF clusters = <<>> THEN 0 ELSE Head(clusters)[3] + CountSum(Tail(clusters))

\* The two-pass hole detector has run and its shots are the current ones.
TwoPassShotsCurrent == pc = "finish" /\ Len(ran) = 2

\* C11: once the two-pass hole detector has run, every cluster of the
\* deduplicator has a count of at least 1, the counts sum to the number of
\* raw hole points, and the number of shots the detector emitted equals the
\* number of raw hole points; the shots are, cluster by cluster in order,
\* exactly count records at the cluster's normalized position.
MultiplicityConserved ==
    Len(ran) >= 2 =>
        /\ \A k \in DOMAIN merged_points : merged_points[k][3] >= 1
        /\ CountSum(merged_points) = Len(all_holes)
        /\ ran[2] = <<"two_pass", Len(all_holes)>>
        /\ TwoPassShotsCurrent =>
              /\ Len(shots) = Len(all_holes)
              /\ \A k \in DOMAIN merged_points :
                    LET before == CountSum(SubSeq(merged_points, 1, k - 1))
                        c == merged_points[k]
                        x0 == Max(IntPx(cx - target_r), 0)
                        y0 == Max(IntPx(cy - target_r), 0)
                    IN  \A i \in (before + 1)..(before + c[3]) :
                            /\ i \in DOMAIN shots
                            /\ shots[i].positionX = normalize(c[1] + Px(x0), cx, target_r)
                            /\ shots[i].positionY = normalize(c[2] + Px(y0), cy, target_r)

\* The hole detector's shots for at least three raw points, some of them
\* folded into one cluster and another cluster beside it.
MultiplicityConservedWitness ==
    /\ TwoPassShotsCurrent
    /\ Len(all_holes) >= 3
    /\ Len(merged_points) >= 2
    /\ \E k \in DOMAIN merged_points : merged_points[k][3] >= 2
    /\ Len(shots) = Len(all_holes)
    /\ Len(shots) > Len(merged_points)

\* All three strategies have run and none found a shot.
Exhausted == Len(ran) = 3 /\ \A i \in DOMAIN ran : ran[i][2] = 0

\* The region of interest of the two-pass detector has zero extent.
RoiZeroExtent ==
    LET x0 == Max(IntPx(cx - target_r), 0)
        y0 == Max(IntPx(cy - target_r), 0)
        x1 == Min(IntPx(cx + target_r), w)
        y1 == Min(IntPx(cy + target_r), h)
    IN  x1 <= x0 \/ y1 <= y0

\* The fallback tried every cut-off and none showed at least 3 contours.
NoCutoffEnough ==
    /\ Len(bright_seen) = Len(BRIGHT_CUTOFFS)
    /\ \A i \in DOMAIN bright_seen : bright_seen[i] < 3

\* C12: when the marker strategy, the two-pass strategy and the brightness
\* fallback all yield nothing, no exception is raised, the run goes on to
\* its normal return and exit status 0, and what it prints is an empty shot
\* list with no error field.  A region of interest of zero extent makes the
\* two-pass strategy yield nothing, and cut-offs none of which shows at
\* least 3 contours make the fallback yield nothing, neither with an
\* exception; exceptions come from before the strategies only.
ExhaustionNotError ==
    /\ Exhausted =>
          /\ pc \in {"finish", "returned", "exit"}
          /\ exception = ""
          /\ shots = <<>>
          /\ pc = "finish" => ENABLED SortAndLimit
          /\ pc = "returned" => ENABLED MainPrint
          /\ pc = "exit" =>
                /\ stdout = <<[shots |-> <<>>]>>
                /\ DOMAIN stdout[1] = {"shots"}
                /\ exit_code = 0
    /\ (Len(ran) >= 2 /\ RoiZeroExtent) =>
          /\ ran[2] = <<"two_pass", 0>>
          /\ all_holes = <<>>
          /\ pc # "raised" /\ exception = ""
    /\ (Len(ran) = 3 /\ NoCutoffEnough) =>
          /\ ran[3] = <<"fallback", 0>>
          /\ pc # "raised" /\ exception = ""
    /\ pc = "raised" => ran = <<>>

\* A run that ended after all three strategies found nothing, its region of
\* interest of zero extent and no cut-off showing 3 contours: an empty shot
\* list was printed, and the exit status is 0.
ExhaustionNotErrorWitness ==
    /\ pc = "exit"
    /\ Exhausted
    /\ RoiZeroExtent
    /\ NoCutoffEnough
    /\ \E i \in DOMAIN bright_seen : bright_seen[i] > 0
    /\ stdout = <<[shots |-> <<>>]>>
    /\ exit_code = 0

----------------------------------------------------------------------------
(* The score mapper applied to pairs of probe positions *)

\* How far around each ring threshold the probe radii reach.
ProbeSlack == 1

Thresholds == {RING_RATIO_THRESHOLDS[i][2] : i \in DOMAIN RING_RATIO_THRESHOLDS}

ProbeRadii ==
    {0, 40, 41, 42} \cup
    {r \in {t + d : t \in Thresholds, d \in (0 - ProbeSlack)..ProbeSlack} : r >= 0}

\* Positions on the axes, and off the axes on and beside a ring boundary
\* (3-4-5 triangles) and in the corner of the unit square.
ProbePoints ==
    {<<r, 0>> : r \in ProbeRadii} \cup
    {<<0, 0 - r>> : r \in Thresholds} \cup
    {<<69, 92>>, <<69, 93>>, <<0 - 933, 1244>>, <<934, 0 - 1244>>,
     <<1100, 1100>>, <<1099, 1100>>, <<261, 348>>}

InitScore ==
    /\ probe \in ProbePoints \X ProbePoints
    /\ scored = <<>>
    /\ pc = "idle"
    /\ argv_len = 1
    /\ image = [decoded |-> FALSE, w |-> 0, h |-> 0]
    /\ w = 0 /\ h = 0
    /\ helper_circles = <<>> /\ legacy_circles = <<>>
    /\ cx = 0 /\ cy = 0 /\ target_r = 0
    /\ marker_shots = <<>> /\ all_holes = <<>> /\ merged_points = <<>>
    /\ shots = <<>> /\ found = <<>> /\ ran = <<>> /\ bright_seen = <<>>
    /\ exception = "" /\ stdout = <<>> /\ exit_code = -1

ScoreProbe ==
    /\ pc = "idle"
    /\ scored = <<>>
    /\ scored' = [i \in 1..2 |-> compute_scores_from_normalized(probe[i][1], probe[i][2])]
    /\ UNCHANGED <<probe, pc, gvars, dvars, mvars>>

NextScore == ScoreProbe

SpecScore == InitScore /\ [][NextScore]_vars

\* Squared distance ratio of a position, exact.
RatioSq(p) == p[1] * p[1] + p[2] * p[2]

\* C1: the score mapper is monotonic: of two positions with ratios
\* r1 < r2, both in [0,1], the one nearer the center has a ring score and a
\* decimal score at least as high.
ScoreMonotonic ==
    scored # <<>> =>
        \A i, j \in 1..2 :
            (RatioSq(probe[i]) < RatioSq(probe[j])
                /\ RatioSq(probe[j]) <= RatioUnit * RatioUnit)
            => /\ scored[i].ring >= scored[j].ring
               /\ scored[i].decimal >= scored[j].decimal

\* Two scored positions in different rings, both inside the target.
ScoreMonotonicWitness ==
    /\ scored # <<>>
    /\ RatioSq(probe[1]) < RatioSq(probe[2])
    /\ RatioSq(probe[2]) <= RatioUnit * RatioUnit
    /\ scored[1].ring > scored[2].ring
    /\ scored[2].ring >= 1
    /\ scored[1].decimal > scored[2].decimal

\* C2: a position whose distance ratio equals the ring-s threshold
\* exactly is given ring score s, the inner ring, for every s in 1..10.
BoundaryScoresInner ==
    scored # <<>> =>
        \A i \in 1..2 : \A k \in DOMAIN RING_RATIO_THRESHOLDS :
            RatioSq(probe[i]) = RING_RATIO_THRESHOLDS[k][2] * RING_RATIO_THRESHOLDS[k][2]
            => scored[i].ring = RING_RATIO_THRESHOLDS[k][1]

\* A scored position off the axes and exactly on the ring-10 boundary, beside
\* one exactly on the ring-1 boundary.
BoundaryScoresInnerWitness ==
    /\ scored # <<>>
    /\ probe[1] = <<69, 92>>
    /\ scored[1].ring = 10
    /\ RatioSq(probe[2]) = RatioUnit * RatioUnit
    /\ scored[2].ring = 1

====
